---- MODULE Spec2Model ----
(***************************************************************************)
(* Model of unified-consciousness-hardware/data/generate_sigils.py: the    *)
(* generator of the 121 neural sigil records and of the EEPROM blob.       *)
(*                                                                         *)
(* Bytes objects are sequences of integers 0..255; a byte at Python        *)
(* offset k is element k+1 of the sequence.  A Python str is a sequence    *)
(* of one-character strings.  Breath durations are in half-second units    *)
(* (4 s = 8, 1.5 s = 3), so that the fractional table entries are          *)
(* integers.                                                               *)
(*                                                                         *)
(* Three specifications:                                                     *)
(*   Spec      one run of main() (lines 167-228), one action per           *)
(*             statement group, one LoopStep per loop iteration;           *)
(*   FairSpec  Spec with the fairness of a sequential interpreter;         *)
(*   SpecCall  one direct call of a module function on an argument drawn   *)
(*             from a bounded set.                                         *)
(***************************************************************************)
EXTENDS Integers, Sequences, FiniteSets

VARIABLES
    pc,           \* main(): position in the function body
    header,       \* main(): local header (line 172)
    sigils_data,  \* main(): local sigils_data (lines 176-179)
    i,            \* main(): next value the range(121) iterator yields
    total_data,   \* main(): local total_data (line 192)
    sigils_bin,   \* contents of the file sigils.bin (lines 194-195)
    sigils_h_len, \* array size declared in sigils_data.h (line 206)
    tier,         \* main(): next value of the range(1, 10) iterator
    dist,         \* main(): the counts printed by the summary loop
    fn,           \* direct call: the function called
    arg,          \* direct call: its argument
    status,       \* direct call: "called", "returned" or "raised"
    ret           \* direct call: the value returned

vars == <<pc, header, sigils_data, i, total_data, sigils_bin, sigils_h_len,
          tier, dist, fn, arg, status, ret>>

mainVars == <<pc, header, sigils_data, i, total_data, sigils_bin,
              sigils_h_len, tier, dist>>

callVars == <<fn, arg, status, ret>>

-----------------------------------------------------------------------------
(* Bounds of the direct-call inputs.                                       *)

\* int_to_ternary is called on -MaxValue..MaxValue
MaxValue == 500

\* index_to_tier and generate_sigil are called on -IndexSlack..120+IndexSlack
IndexSlack == 10

\* each phase of a breath pattern lasts 0..MaxHalf half-seconds
MaxHalf == 10

-----------------------------------------------------------------------------
(* Module constants.                                                       *)

SOLFEGGIO ==
    [t \in 1..9 |->
        CASE t = 1 -> 174 [] t = 2 -> 285 [] t = 3 -> 396
          [] t = 4 -> 417 [] t = 5 -> 528 [] t = 6 -> 639
          [] t = 7 -> 741 [] t = 8 -> 852 [] t = 9 -> 963]

\* (inhale, hold_in, exhale, hold_out) in half-seconds
BREATH_PATTERNS ==
    [t \in 1..9 |->
        CASE t = 1 -> <<8, 4, 8, 4>>
          [] t = 2 -> <<7, 3, 7, 3>>
          [] t = 3 -> <<6, 2, 6, 2>>
          [] t = 4 -> <<5, 3, 5, 3>>
          [] t = 5 -> <<4, 4, 4, 4>>
          [] t = 6 -> <<5, 2, 7, 2>>
          [] t = 7 -> <<3, 1, 5, 1>>
          [] t = 8 -> <<4, 2, 4, 2>>
          [] t = 9 -> <<2, 6, 2, 6>>]

FLAG_ACTIVE == 1

FLAG_ANCHORED == 2

FLAG_RESONANT == 4

FLAG_TRIAD == 8

FLAG_K_FORMATION == 16

MAGIC == 1397180748

VERSION == 1

COUNT == 121

-----------------------------------------------------------------------------
(* Python and struct primitives.                                           *)

\* a | b on non-negative integers
RECURSIVE BitOr(_, _)
BitOr(a, b) ==
    IF a = 0 THEN b
    ELSE IF b = 0 THEN a
    ELSE (IF a % 2 = 1 \/ b % 2 = 1 THEN 1 ELSE 0)
         + 2 * BitOr(a \div 2, b \div 2)

\* a << n
ShiftLeft(a, n) == a * 2^n

\* the bug of rounding to the nearest second (halves up) instead of truncating
IntOfHalves_round(h) == (h + 1) \div 2

\* int(seconds) on a duration of h half-seconds: truncation toward zero
IntOfHalves(h) == IF h >= 0 THEN h \div 2 ELSE -((-h) \div 2)

\* the NUL character appended to the code (line 115)
NUL == "NUL"

\* str.encode('ascii') of one character
AsciiByte(c) ==
    CASE c = "0" -> 48
      [] c = "1" -> 49
      [] c = "T" -> 84
      [] c = NUL -> 0

AsciiEncode(s) == [k \in 1..Len(s) |-> AsciiByte(s[k])]

\* struct format '6s': the first 6 bytes, padded with null bytes
Pack6s(b) == [k \in 1..6 |-> IF k <= Len(b) THEN b[k] ELSE 0]

\* struct format 'B': one unsigned byte
PackB(x) == <<x>>

\* the bug of packing with '>H': most significant byte first
PackH_bigendian(x) == <<(x \div 256) % 256, x % 256>>

\* struct format '<H': unsigned 16 bits, little-endian
PackH(x) == <<x % 256, (x \div 256) % 256>>

\* the bug of packing with '>I': most significant byte first
PackI_bigendian(x) ==
    <<(x \div 16777216) % 256, (x \div 65536) % 256, (x \div 256) % 256,
      x % 256>>

\* struct format '<I': unsigned 32 bits, little-endian
PackI(x) ==
    <<x % 256, (x \div 256) % 256, (x \div 65536) % 256,
      (x \div 16777216) % 256>>

-----------------------------------------------------------------------------
(* int_to_ternary (lines 60-76).                                           *)

TernaryChar(digit) ==
    IF digit = 0 THEN "0" ELSE IF digit = 1 THEN "1" ELSE "T"

\* the list result after n iterations of the loop of lines 66-74,
\* least-significant digit first
RECURSIVE TernaryDigits(_, _)
TernaryDigits(value, n) ==
    IF n = 0 THEN <<>>
    ELSE <<TernaryChar(value % 3)>> \o TernaryDigits(value \div 3, n - 1)

Reversed(s) == [k \in 1..Len(s) |-> s[Len(s) + 1 - k]]

\* the bug of saturating an out-of-range value instead of wrapping it
TernaryReduce_clamp(value) ==
    IF value < 0 THEN 0 ELSE IF value > 242 THEN 242 ELSE value

TernaryReduce(value) ==
    IF value < 0 \/ value > 242 THEN value % 243 ELSE value

\* the bug of leaving out reversed(): least-significant digit first
int_to_ternary_unreversed(value) == TernaryDigits(TernaryReduce(value), 5)

int_to_ternary(value) == Reversed(TernaryDigits(TernaryReduce(value), 5))

-----------------------------------------------------------------------------
(* encode_breath_pattern (lines 79-101).                                   *)

encode_phase(seconds) ==
    LET s == IntOfHalves(seconds)
    IN  IF s <= 1 THEN 0
        ELSE IF s <= 2 THEN 1
        ELSE IF s <= 3 THEN 2
        ELSE 3

encode_breath_pattern(pattern) ==
    LET e0 == 0
        e1 == BitOr(e0, encode_phase(pattern[1]))
        e2 == BitOr(e1, ShiftLeft(encode_phase(pattern[2]), 2))
        e3 == BitOr(e2, ShiftLeft(encode_phase(pattern[3]), 4))
        e4 == BitOr(e3, ShiftLeft(encode_phase(pattern[4]), 6))
    IN  e4

-----------------------------------------------------------------------------
(* index_to_tier (lines 104-108).                                          *)

Min(a, b) == IF a <= b THEN a ELSE b

\* the bug of dividing by 120, the last index, instead of 121, the count
tier_unclamped_div120(index) == ((index * 9) \div 120) + 1

\* the local tier of line 107, before the clamp
tier_unclamped(index) == ((index * 9) \div 121) + 1

\* the bug of leaving out the + 1: tiers 0..8
index_to_tier_zero_based(index) == Min((index * 9) \div 121, 9)

index_to_tier(index) == Min(tier_unclamped(index), 9)

-----------------------------------------------------------------------------
(* generate_sigil (lines 111-152).                                         *)

\* the bug of half-open ranges: 40 <= index < 50, 90 <= index < 100
flags_half_open(index) ==
    LET f0 == FLAG_ACTIVE
        f1 == IF index \in {0, 60, 120} THEN BitOr(f0, FLAG_ANCHORED) ELSE f0
        f2 == IF 40 <= index /\ index < 50 THEN BitOr(f1, FLAG_TRIAD) ELSE f1
        f3 == IF 90 <= index /\ index < 100
              THEN BitOr(f2, FLAG_K_FORMATION) ELSE f2
    IN  f3

\* the local flags after lines 128-134
flags(index) ==
    LET f0 == FLAG_ACTIVE
        f1 == IF index \in {0, 60, 120} THEN BitOr(f0, FLAG_ANCHORED) ELSE f0
        f2 == IF 40 <= index /\ index <= 50 THEN BitOr(f1, FLAG_TRIAD) ELSE f1
        f3 == IF 90 <= index /\ index <= 100
              THEN BitOr(f2, FLAG_K_FORMATION) ELSE f2
    IN  f3

\* the call raises: KeyError at the table lookups of lines 122 and 125,
\* struct.error when region_id does not fit format 'B'
generate_sigil_raises(index) ==
    \/ index_to_tier(index) \notin DOMAIN SOLFEGGIO
    \/ index_to_tier(index) \notin DOMAIN BREATH_PATTERNS
    \/ index \notin 0..255

generate_sigil(index) ==
    LET code       == int_to_ternary(index)
        code_bytes == AsciiEncode(Append(code, NUL))
        region_id  == index
        t          == index_to_tier(index)
        frequency  == SOLFEGGIO[t]
        breath     == encode_breath_pattern(BREATH_PATTERNS[t])
    IN  Pack6s(code_bytes) \o PackB(region_id) \o PackH(frequency)
          \o PackB(breath) \o PackB(flags(index))

-----------------------------------------------------------------------------
(* generate_header (lines 155-164).                                        *)

generate_header ==
    LET checksum == 0
    IN  PackI(MAGIC) \o PackB(VERSION) \o PackB(COUNT) \o PackH(checksum)

-----------------------------------------------------------------------------
(* main (lines 167-228).                                                   *)

NoCall ==
    /\ fn = "none"
    /\ arg = 0
    /\ status = "none"
    /\ ret = <<>>

Init ==
    /\ pc = "start"
    /\ header = <<>>
    /\ sigils_data = <<>>
    /\ i = 0
    /\ total_data = <<>>
    /\ sigils_bin = <<>>
    /\ sigils_h_len = 0
    /\ tier = 1
    /\ dist = <<>>
    /\ NoCall

\* lines 171-176
GenHeader ==
    /\ pc = "start"
    /\ header' = generate_header
    /\ sigils_data' = <<>>
    /\ i' = 0
    /\ pc' = "loop"
    /\ UNCHANGED <<total_data, sigils_bin, sigils_h_len, tier, dist>>
    /\ UNCHANGED callVars

\* the bug of prepending: the records end up in descending index order
LoopStep_prepend ==
    /\ pc = "loop"
    /\ i < 121
    /\ sigils_data' = generate_sigil(i) \o sigils_data
    /\ i' = i + 1
    /\ UNCHANGED <<pc, header, total_data, sigils_bin, sigils_h_len, tier, dist>>
    /\ UNCHANGED callVars

\* one iteration of the loop of lines 177-185
LoopStep ==
    /\ pc = "loop"
    /\ i < 121
    /\ sigils_data' = sigils_data \o generate_sigil(i)
    /\ i' = i + 1
    /\ UNCHANGED <<pc, header, total_data, sigils_bin, sigils_h_len, tier, dist>>
    /\ UNCHANGED callVars

\* the iterator is exhausted; line 192
Assemble ==
    /\ pc = "loop"
    /\ i >= 121
    /\ total_data' = header \o sigils_data
    /\ pc' = "write_bin"
    /\ UNCHANGED <<header, sigils_data, i, sigils_bin, sigils_h_len, tier, dist>>
    /\ UNCHANGED callVars

\* lines 194-195
WriteBin ==
    /\ pc = "write_bin"
    /\ sigils_bin' = total_data
    /\ pc' = "write_h"
    /\ UNCHANGED <<header, sigils_data, i, total_data, sigils_h_len, tier, dist>>
    /\ UNCHANGED callVars

\* lines 200-218: the array is declared with len(total_data) elements
WriteHeaderFile ==
    /\ pc = "write_h"
    /\ sigils_h_len' = Len(total_data)
    /\ tier' = 1
    /\ pc' = "summary"
    /\ UNCHANGED <<header, sigils_data, i, total_data, sigils_bin, dist>>
    /\ UNCHANGED callVars

\* the count of line 226
TierCount(t) == Cardinality({j \in 0..120 : index_to_tier(j) = t})

\* one iteration of the loop of lines 225-228
SummaryStep ==
    /\ pc = "summary"
    /\ tier < 10
    /\ dist' = Append(dist, TierCount(tier))
    /\ tier' = tier + 1
    /\ UNCHANGED <<pc, header, sigils_data, i, total_data, sigils_bin, sigils_h_len>>
    /\ UNCHANGED callVars

Finish ==
    /\ pc = "summary"
    /\ tier >= 10
    /\ pc' = "done"
    /\ UNCHANGED <<header, sigils_data, i, total_data, sigils_bin, sigils_h_len,
                   tier, dist>>
    /\ UNCHANGED callVars

Next ==
    \/ GenHeader
    \/ LoopStep
    \/ Assemble
    \/ WriteBin
    \/ WriteHeaderFile
    \/ SummaryStep
    \/ Finish

Spec == Init /\ [][Next]_vars

\* the interpreter runs main() statement after statement without stopping
FairSpec == Spec /\ WF_vars(Next)

-----------------------------------------------------------------------------
(* Direct calls of the module's functions.                                 *)

BreathInputs == (0..MaxHalf) \X (0..MaxHalf) \X (0..MaxHalf) \X (0..MaxHalf)

IndexInputs == (-IndexSlack)..(120 + IndexSlack)

InitCall ==
    /\ pc = "idle"
    /\ header = <<>>
    /\ sigils_data = <<>>
    /\ i = 0
    /\ total_data = <<>>
    /\ sigils_bin = <<>>
    /\ sigils_h_len = 0
    /\ tier = 1
    /\ dist = <<>>
    /\ status = "called"
    /\ ret = <<>>
    /\ \/ fn = "int_to_ternary" /\ arg \in (-MaxValue)..MaxValue
       \/ fn = "encode_breath_pattern" /\ arg \in BreathInputs
       \/ fn = "index_to_tier" /\ arg \in IndexInputs
       \/ fn = "generate_sigil" /\ arg \in IndexInputs

CallTernary ==
    /\ fn = "int_to_ternary"
    /\ status = "called"
    /\ ret' = int_to_ternary(arg)
    /\ status' = "returned"
    /\ UNCHANGED <<fn, arg>>
    /\ UNCHANGED mainVars

CallBreath ==
    /\ fn = "encode_breath_pattern"
    /\ status = "called"
    /\ ret' = encode_breath_pattern(arg)
    /\ status' = "returned"
    /\ UNCHANGED <<fn, arg>>
    /\ UNCHANGED mainVars

CallTier ==
    /\ fn = "index_to_tier"
    /\ status = "called"
    /\ ret' = index_to_tier(arg)
    /\ status' = "returned"
    /\ UNCHANGED <<fn, arg>>
    /\ UNCHANGED mainVars

CallSigil ==
    /\ fn = "generate_sigil"
    /\ status = "called"
    /\ IF generate_sigil_raises(arg)
       THEN status' = "raised" /\ ret' = ret
       ELSE status' = "returned" /\ ret' = generate_sigil(arg)
    /\ UNCHANGED <<fn, arg>>
    /\ UNCHANGED mainVars

NextCall ==
    \/ CallTernary
    \/ CallBreath
    \/ CallTier
    \/ CallSigil

SpecCall == InitCall /\ [][NextCall]_vars

-----------------------------------------------------------------------------
(* Properties of one run of main().                                        *)

Assembled == {"write_bin", "write_h", "summary", "done"}

\* generate_sigil(lo) ++ ... ++ generate_sigil(hi-1), by halving
RECURSIVE RecordsBetween(_, _)
RecordsBetween(lo, hi) ==
    IF hi <= lo THEN <<>>
    ELSE IF hi = lo + 1 THEN generate_sigil(lo)
    ELSE LET mid == (lo + hi) \div 2
         IN  RecordsBetween(lo, mid) \o RecordsBetween(mid, hi)

\* generate_sigil(0) ++ ... ++ generate_sigil(k-1)
RecordsUpTo(k) == RecordsBetween(0, k)

\* little-endian value of the bytes s[from+1..from+n] (Python s[from:from+n])
RECURSIVE LittleEndian(_, _, _)
LittleEndian(s, from, n) ==
    IF n = 0 THEN 0 ELSE s[from + 1] + 256 * LittleEndian(s, from + 1, n - 1)

\* C1: every record generate_sigil returns is 10 bytes long (so that after
\* k iterations sigils_data holds 10*k bytes), the header is 8 bytes long,
\* and the blob main assembles is 8 + 121*10 = 1218 bytes long.
C1_Sizes ==
    /\ pc # "start" => Len(header) = 8
    /\ pc = "loop" => Len(sigils_data) = 10 * i
    /\ pc \in Assembled => Len(total_data) = 1218

\* C3: the header main obtains from generate_header() is the 8 bytes
\* 4C 49 47 53 01 79 00 00: a little-endian magic of 0x5347494C, version 1,
\* count 121 and a zero checksum; they are the first 8 bytes of the blob.
C3_Header ==
    /\ pc # "start" =>
        /\ Len(header) = 8
        /\ header = <<76, 73, 71, 83, 1, 121, 0, 0>>
        /\ LittleEndian(header, 0, 4) = 1397180748
        /\ header[5] = 1
        /\ header[6] = 121
        /\ header[7] = 0 /\ header[8] = 0
    /\ pc \in Assembled =>
        /\ Len(total_data) >= 8
        /\ SubSeq(total_data, 1, 8) = header
        /\ LittleEndian(total_data, 0, 4) = 1397180748
        /\ total_data[5] = 1
        /\ total_data[6] = 121
        /\ LittleEndian(total_data, 6, 2) = 0

C3_Witness ==
    /\ pc = "done"
    /\ Len(total_data) > 8
    /\ SubSeq(total_data, 1, 4) = <<76, 73, 71, 83>>
    /\ sigils_bin = total_data

\* the blob divides into as many equal records as its count byte says,
\* record j is generate_sigil(j) and carries region_id j at offset 6
BlobInOrder(blob) ==
    LET count  == blob[6]
        body   == Len(blob) - 8
        reclen == body \div count
    IN  /\ count = 121
        /\ body = count * reclen
        /\ \A j \in 0..(count - 1) :
              /\ SubSeq(blob, 8 + j * reclen + 1, 8 + (j + 1) * reclen)
                    = generate_sigil(j)
              /\ blob[8 + j * reclen + 6 + 1] = j

\* C4: the loop of main takes the indices 0..120 once each in ascending
\* order and ends: every iteration advances the index by one and appends
\* that index's record, after k iterations sigils_data is
\* generate_sigil(0) ++ ... ++ generate_sigil(k-1), the blob is the header
\* followed by the records of 0, 1, ..., 120 (as many records as the count
\* byte says, record j carrying region_id j), and main reaches its end.
C4_LoopInOrder ==
    /\ [](pc = "loop" => i \in 0..121 /\ sigils_data = RecordsUpTo(i))
    /\ [][pc = "loop" /\ pc' = "loop" =>
            /\ i' = i + 1
            /\ sigils_data' = sigils_data \o generate_sigil(i)]_vars
    /\ [](pc \in Assembled =>
            /\ i = 121
            /\ total_data = generate_header \o RecordsUpTo(121)
            /\ BlobInOrder(total_data))
    /\ <>(pc = "done")

C4_Witness ==
    /\ pc = "done"
    /\ i = 121
    /\ total_data[6] = 121
    /\ total_data[8 + 120 * 11 + 6 + 1] = 120

\* C10 as stated: the tier sizes differ by at most 1, tier 9 is at least as
\* large as every other tier, and some index in 0..120 has an unclamped tier
\* above 9.
C10_LastTierAbsorbs ==
    pc = "done" =>
        /\ \A s, t \in 1..9 : dist[s] - dist[t] <= 1
        /\ \A t \in 1..9 : dist[9] >= dist[t]
        /\ \E j \in 0..120 : tier_unclamped(j) > 9

\* C10 as amended: the tier sizes differ by at most 1 and add up to 121,
\* but tier 9 is among the smallest tiers (no tier is smaller, some tier is
\* larger), and the clamp changes nothing on 0..120: the unclamped tier is
\* at most 9 there and is the tier returned.
C10_TierSizes ==
    pc = "done" =>
        /\ Len(dist) = 9
        /\ \A s, t \in 1..9 : dist[s] - dist[t] <= 1
        /\ dist[1] + dist[2] + dist[3] + dist[4] + dist[5] + dist[6]
             + dist[7] + dist[8] + dist[9] = 121
        /\ \A t \in 1..9 : dist[9] <= dist[t]
        /\ \E t \in 1..9 : dist[t] > dist[9]
        /\ \A j \in 0..120 :
              /\ tier_unclamped(j) <= 9
              /\ index_to_tier(j) = tier_unclamped(j)

C10_Witness ==
    /\ pc = "done"
    /\ dist = <<14, 13, 14, 13, 14, 13, 14, 13, 13>>
    /\ tier_unclamped(120) = 9

-----------------------------------------------------------------------------
(* Properties of a direct call.                                            *)

Returned(f) == fn = f /\ status = "returned"

\* bit m (a power of two) of byte f is set
BitSet(f, m) == (f \div m) % 2 = 1

\* the value a 5-character ternary string denotes, most significant first
TernaryDigit(c) == CASE c = "0" -> 0 [] c = "1" -> 1 [] c = "T" -> 2

TernaryValue(s) ==
    81 * TernaryDigit(s[1]) + 27 * TernaryDigit(s[2]) + 9 * TernaryDigit(s[3])
      + 3 * TernaryDigit(s[4]) + TernaryDigit(s[5])

\* C2: for an index in 0..120 generate_sigil returns without raising, and
\* the record is, with no padding: bytes 0..4 the ASCII characters of
\* int_to_ternary(index), byte 5 zero, byte 6 the index, bytes 7..8 the
\* tier's SOLFEGGIO frequency as little-endian 16 bits, then the byte of the
\* tier's encoded breath pattern, then the flags byte.  For index 0 the
\* region_id is 0, the frequency 174 and the flags byte 0x03.
C2_RecordLayout ==
    (fn = "generate_sigil" /\ status # "called" /\ arg \in 0..120) =>
        /\ status = "returned"
        /\ Len(ret) = 5 + 1 + 1 + 2 + 1 + 1
        /\ \A k \in 1..5 : ret[k] = AsciiByte(int_to_ternary(arg)[k])
        /\ ret[6] = 0
        /\ ret[7] = arg
        /\ ret[8] \in 0..255 /\ ret[9] \in 0..255
        /\ LittleEndian(ret, 7, 2) = SOLFEGGIO[index_to_tier(arg)]
        /\ ret[10] = encode_breath_pattern(BREATH_PATTERNS[index_to_tier(arg)])
        /\ ret[11] = flags(arg)
        /\ arg = 0 =>
              /\ ret[7] = 0
              /\ ret[8] + 256 * ret[9] = 174
              /\ ret[11] = 3

C2_Witness ==
    /\ Returned("generate_sigil")
    /\ arg = 0
    /\ ret = <<48, 48, 48, 48, 48, 0, 0, 174, 0, 119, 3>>

\* C5: for a value in 0..242 int_to_ternary returns 5 characters, each one
\* of 0, 1, T, that are the base-3 digits of the value most significant
\* first (0 -> '0', 1 -> '1', 2 -> 'T'); 0 gives 00000, 242 gives TTTTT, and
\* no other value in 0..242 gives the same string.
C5_TernaryDigits ==
    (Returned("int_to_ternary") /\ arg \in 0..242) =>
        /\ Len(ret) = 5
        /\ \A k \in 1..5 : ret[k] \in {"0", "1", "T"}
        /\ TernaryValue(ret) = arg
        /\ \A k \in 1..5 : TernaryDigit(ret[k]) = (arg \div 3^(5 - k)) % 3
        /\ arg = 0 => ret = <<"0", "0", "0", "0", "0">>
        /\ arg = 242 => ret = <<"T", "T", "T", "T", "T">>
        /\ \A v \in 0..242 : v # arg => int_to_ternary(v) # ret

C5_Witness ==
    /\ Returned("int_to_ternary")
    /\ arg = 242
    /\ ret = <<"T", "T", "T", "T", "T">>

\* C6: for a value outside 0..242, negative ones included, int_to_ternary
\* returns (it has no error outcome) the string of the r in 0..242 that
\* differs from the value by a multiple of 243; 243 gives the string of 0
\* and -1 the string of 242.
C6_TernaryWraps ==
    (fn = "int_to_ternary" /\ status # "called" /\ arg \notin 0..242) =>
        /\ status = "returned"
        /\ Len(ret) = 5
        /\ \A k \in 1..5 : ret[k] \in {"0", "1", "T"}
        /\ LET r == TernaryValue(ret)
           IN  /\ r \in 0..242
               /\ \E q \in (-MaxValue)..MaxValue : arg = 243 * q + r
               /\ ret = int_to_ternary(r)
        /\ arg = 243 => ret = int_to_ternary(0)
        /\ arg = -1 => ret = int_to_ternary(242)

C6_Witness ==
    /\ Returned("int_to_ternary")
    /\ arg = -1
    /\ ret = <<"T", "T", "T", "T", "T">>

\* C7: for an index in 0..120 the flags byte of the record has ACTIVE
\* (0x01) set; ANCHORED (0x02) set iff the index is 0, 60 or 120; TRIAD
\* (0x08) set iff 40 <= index <= 50; K_FORMATION (0x10) set iff
\* 90 <= index <= 100; RESONANT (0x04) and 0x20, 0x40, 0x80 clear; so the
\* byte is one of 0x01, 0x03, 0x09, 0x11.
C7_Flags ==
    (Returned("generate_sigil") /\ arg \in 0..120) =>
        LET f == ret[Len(ret)]
        IN  /\ f \in 0..255
            /\ BitSet(f, 1)
            /\ BitSet(f, 2) <=> arg \in {0, 60, 120}
            /\ BitSet(f, 8) <=> (40 <= arg /\ arg <= 50)
            /\ BitSet(f, 16) <=> (90 <= arg /\ arg <= 100)
            /\ ~BitSet(f, 4)
            /\ ~BitSet(f, 32) /\ ~BitSet(f, 64) /\ ~BitSet(f, 128)
            /\ f \in {1, 3, 9, 17}
            /\ arg \in {39, 51} => ~BitSet(f, 8)
            /\ arg = 45 => f = 9
            /\ arg = 95 => f = 17

C7_Witness ==
    /\ Returned("generate_sigil")
    /\ arg = 50
    /\ ret[Len(ret)] = 9

\* C8: for an index in 0..120 index_to_tier returns a tier in 1..9, not
\* below the tier of the index before it; index 0 is in tier 1 and 120 in
\* tier 9; every tier 1..9 has an index; and the tier is a key of both
\* SOLFEGGIO and BREATH_PATTERNS, so that generate_sigil does not raise.
C8_TierRange ==
    /\ (Returned("index_to_tier") /\ arg \in 0..120) =>
          /\ ret \in 1..9
          /\ arg > 0 => index_to_tier(arg - 1) <= ret
          /\ arg = 0 => ret = 1
          /\ arg = 120 => ret = 9
          /\ ret \in DOMAIN SOLFEGGIO
          /\ ret \in DOMAIN BREATH_PATTERNS
          /\ \A t \in 1..9 : \E j \in 0..120 : index_to_tier(j) = t
          /\ \A j \in 0..arg : index_to_tier(j) <= ret
    /\ (fn = "generate_sigil" /\ arg \in 0..120) => status # "raised"

C8_Witness ==
    /\ Returned("index_to_tier")
    /\ arg = 120
    /\ ret = 9

\* the bucket of a phase of h half-seconds, as the spec states it
Bucket(h) ==
    LET whole == CHOOSE n \in 0..h : 2 * n <= h /\ h < 2 * (n + 1)
    IN  CASE whole <= 1 -> 0
          [] whole = 2 -> 1
          [] whole = 3 -> 2
          [] whole >= 4 -> 3

\* C9: encode_breath_pattern returns
\* inhale + 4*hold_in + 16*exhale + 64*hold_out, a byte, where each phase
\* is the bucket of its whole seconds (<= 1 -> 0, 2 -> 1, 3 -> 2, >= 4 -> 3):
\* 0.5 s -> 0, 2.0 s -> 1, 3.0 s -> 2, 5 s -> 3, and 1.5, 2.5, 3.5 s fall in
\* the buckets of 1, 2, 3 s.
C9_BreathByte ==
    Returned("encode_breath_pattern") =>
        /\ ret \in 0..255
        /\ ret = Bucket(arg[1]) + 4 * Bucket(arg[2]) + 16 * Bucket(arg[3])
                   + 64 * Bucket(arg[4])
        /\ \A k \in 1..4 :
              LET b == (ret \div 4^(k - 1)) % 4
              IN  /\ arg[k] = 1 => b = 0
                  /\ arg[k] = 4 => b = 1
                  /\ arg[k] = 6 => b = 2
                  /\ arg[k] = 10 => b = 3
                  /\ arg[k] = 3 => b = 0
                  /\ arg[k] = 5 => b = 1
                  /\ arg[k] = 7 => b = 2
        /\ arg = BREATH_PATTERNS[1] => ret = 119
        /\ arg \in {BREATH_PATTERNS[2], BREATH_PATTERNS[3]} => ret = 34
        /\ arg \in {BREATH_PATTERNS[4], BREATH_PATTERNS[8]} => ret = 17
        /\ arg = BREATH_PATTERNS[5] => ret = 85
        /\ arg = BREATH_PATTERNS[6] => ret = 33
        /\ arg = BREATH_PATTERNS[7] => ret = 16
        /\ arg = BREATH_PATTERNS[9] => ret = 136

C9_Witness ==
    /\ Returned("encode_breath_pattern")
    /\ arg = <<7, 3, 10, 1>>
    /\ ret = 2 + 4 * 0 + 16 * 3 + 64 * 0

====
